---- MODULE Spec2Model ----
(***************************************************************************)
(* A model of the map / radar / traffic pipeline of hdfm:                  *)
(*   src/src/map_manager.py  IHeartRadioConfig, Coordinates, MapManager    *)
(*   src/src/radar_map.py    DopplerRadarManager                           *)
(*   src/src/traffic.py      TrafficTile, TrafficMapManager                *)
(* Text (file names, configuration text) is a sequence of one-character    *)
(* strings, so that the regular expressions, slices and splits of the code *)
(* are computed on it.  Python values are records with a tag.              *)
(***************************************************************************)
EXTENDS Integers, Sequences, FiniteSets, TLC

(* ------------------------------------------------------------------ *)
(* Python values                                                        *)
(* ------------------------------------------------------------------ *)
None == [tag |-> "None"]

Str(s) == [tag |-> "str", s |-> s]

Lst(l) == [tag |-> "list", l |-> l]

Err(e) == [tag |-> "err", e |-> e]

True == [tag |-> "bool", v |-> TRUE]

False == [tag |-> "bool", v |-> FALSE]

IsErr(v) == v.tag = "err"

(* ------------------------------------------------------------------ *)
(* Text helpers                                                         *)
(* ------------------------------------------------------------------ *)
Digits == {"0", "1", "2", "3", "4", "5", "6", "7", "8", "9"}

Letters ==
    {"a", "b", "c", "d", "e", "f", "g", "h", "i", "j", "k", "l", "m",
     "n", "o", "p", "q", "r", "s", "t", "u", "v", "w", "x", "y", "z",
     "A", "B", "C", "D", "E", "F", "G", "H", "I", "J", "K", "L", "M",
     "N", "O", "P", "Q", "R", "S", "T", "U", "V", "W", "X", "Y", "Z"}

\* the class \w of the regular expressions
WordChars == Letters \cup Digits \cup {"_"}

DigitVal(c) ==
    CASE c = "0" -> 0 [] c = "1" -> 1 [] c = "2" -> 2 [] c = "3" -> 3
      [] c = "4" -> 4 [] c = "5" -> 5 [] c = "6" -> 6 [] c = "7" -> 7
      [] c = "8" -> 8 [] c = "9" -> 9

\* s[1:-1] of Python
Slice1(s) == IF Len(s) < 2 THEN <<>> ELSE SubSeq(s, 2, Len(s) - 1)

\* positions of the character c in s
Positions(s, c) == {i \in 1..Len(s) : s[i] = c}

Min(S) == CHOOSE x \in S : \A y \in S : x <= y

RECURSIVE Split(_, _)
\* s.split(sep) for a one-character separator
Split(s, sep) ==
    IF Positions(s, sep) = {}
    THEN <<s>>
    ELSE LET i == Min(Positions(s, sep))
         IN  <<SubSeq(s, 1, i - 1)>> \o Split(SubSeq(s, i + 1, Len(s)), sep)

\* text.splitlines(): split at line feeds, no empty last line after a final one
SplitLines(text) ==
    LET parts == Split(text, "\n")
    IN  IF parts[Len(parts)] = <<>> THEN SubSeq(parts, 1, Len(parts) - 1) ELSE parts

\* whether pat occurs in s (a glob '*pat*', the 'in' operator)
Contains(s, pat) ==
    \E i \in 1..(Len(s) - Len(pat) + 1) : SubSeq(s, i, i + Len(pat) - 1) = pat

(* ------------------------------------------------------------------ *)
(* IHeartRadioConfig                                                    *)
(* ------------------------------------------------------------------ *)
\* strip_quotes: indexes s[0], so it raises on the empty string; it has no
\* return statement for a string that is not quoted, so it returns None
strip_quotes(s) ==
    IF Len(s) = 0 THEN Err("IndexError")
    ELSE IF (s[1] = "\"" /\ s[Len(s)] = "\"") \/ (s[1] = "'" /\ s[Len(s)] = "'")
         THEN Str(Slice1(s))
         ELSE None

\* the first error among the values of a sequence, or None
FirstErr(l) ==
    IF \E i \in 1..Len(l) : IsErr(l[i])
    THEN l[Min({i \in 1..Len(l) : IsErr(l[i])})]
    ELSE None

_parse_value(value) ==
    IF Positions(value, ";") # {}
    THEN LET parts == Split(value, ";")
             vals == [i \in 1..Len(parts) |-> strip_quotes(parts[i])]
         IN  IF FirstErr(vals) # None THEN FirstErr(vals) ELSE Lst(vals)
    ELSE strip_quotes(value)

\* re.search(r'(\w+)=(.*?)$', line): the leftmost '=' that follows a word
\* character ends the key, the key is the run of word characters before it and
\* the value is the rest of the line
KeyEnds(line) == {j \in 2..Len(line) : line[j] = "=" /\ line[j - 1] \in WordChars}

KeyVal(line) ==
    IF KeyEnds(line) = {} THEN None
    ELSE LET j == Min(KeyEnds(line))
             i == Min({k \in 1..(j - 1) : \A n \in k..(j - 1) : line[n] \in WordChars})
         IN  [tag |-> "match", key |-> SubSeq(line, i, j - 1),
              val |-> SubSeq(line, j + 1, Len(line))]

RECURSIVE LoadLines(_, _)
\* the loop of load(): a dict (a function on its keys), or the error raised
LoadLines(lines, result) ==
    IF lines = <<>> THEN [tag |-> "dict", d |-> result]
    ELSE LET m == KeyVal(lines[1])
         IN  IF m = None THEN LoadLines(Tail(lines), result)
             ELSE LET v == _parse_value(m.val)
                  IN  IF IsErr(v) THEN v
                      ELSE LoadLines(Tail(lines),
                               [k \in (DOMAIN result) \cup {m.key} |->
                                   IF k = m.key THEN v ELSE result[k]])

load(text) == LoadLines(SplitLines(text), [k \in {} |-> None])

(* ------------------------------------------------------------------ *)
(* Coordinates and float()                                              *)
(* ------------------------------------------------------------------ *)
\* Floats are kept as integers in tenths; the texts of the model carry at
\* most one digit after the point.
RECURSIVE DigitsVal(_)
DigitsVal(ds) ==
    IF ds = <<>> THEN 0
    ELSE 10 * DigitsVal(SubSeq(ds, 1, Len(ds) - 1)) + DigitVal(ds[Len(ds)])

\* float(s) for a signed decimal literal; anything else (a quote character, an
\* empty string, two points) raises ValueError
ParseFloat(s) ==
    LET signed == Len(s) > 0 /\ s[1] \in {"+", "-"}
        body == IF signed THEN Tail(s) ELSE s
        dots == Positions(body, ".")
        ip == IF dots = {} THEN body ELSE SubSeq(body, 1, Min(dots) - 1)
        fp == IF dots = {} THEN <<>> ELSE SubSeq(body, Min(dots) + 1, Len(body))
        ok == /\ Cardinality(dots) <= 1
              /\ Len(ip) + Len(fp) > 0
              /\ \A i \in 1..Len(ip) : ip[i] \in Digits
              /\ \A i \in 1..Len(fp) : fp[i] \in Digits
              /\ Len(fp) <= 1
        mag == DigitsVal(ip) * 10 + (IF fp = <<>> THEN 0 ELSE DigitVal(fp[1]))
    IN  IF ~ok THEN Err("ValueError")
        ELSE [tag |-> "float", v |-> IF signed /\ s[1] = "-" THEN 0 - mag ELSE mag]

\* len(value) of a Python value
PyLen(value) ==
    CASE value.tag = "str" -> [tag |-> "int", v |-> Len(value.s)]
      [] value.tag = "list" -> [tag |-> "int", v |-> Len(value.l)]
      [] OTHER -> Err("TypeError")

\* value[i] (i counted from 1 here) of a str or a list that is long enough
PyItem(value, i) ==
    IF value.tag = "list" THEN value.l[i] ELSE Str(<<value.s[i]>>)

\* 'a, b = value[i][1:-1].split(",")': the two parts, or the error raised
SplitPair(item) ==
    IF item.tag # "str" THEN Err("TypeError")
    ELSE LET parts == Split(Slice1(item.s), ",")
         IN  IF Len(parts) # 2 THEN Err("ValueError")
             ELSE [tag |-> "pair", a |-> parts[1], b |-> parts[2]]

\* Coordinates.parse without the check of the length: the first two items are
\* taken
CoordinatesParseFirstTwo(value) ==
    LET n == PyLen(value)
    IN  IF IsErr(n) THEN n
        ELSE IF n.v < 2 THEN Err("IndexError")
        ELSE LET top == SplitPair(PyItem(value, 1))
                 bot == SplitPair(PyItem(value, 2))
             IN  IF IsErr(top) THEN top
                 ELSE IF IsErr(bot) THEN bot
                 ELSE LET fs == <<ParseFloat(top.a), ParseFloat(top.b),
                                  ParseFloat(bot.a), ParseFloat(bot.b)>>
                      IN  IF FirstErr(fs) # None THEN FirstErr(fs)
                          ELSE [tag |-> "coords",
                                value |-> <<<<fs[1].v, fs[2].v>>, <<fs[3].v, fs[4].v>>>>]

\* Coordinates.parse: ((lat_top, lon_left), (lat_bottom, lon_right))
CoordinatesParse(value) ==
    LET n == PyLen(value)
    IN  IF IsErr(n) THEN n
        ELSE IF n.v # 2 THEN Err("Exception")
        ELSE LET top == SplitPair(PyItem(value, 1))
                 bot == SplitPair(PyItem(value, 2))
             IN  IF IsErr(top) THEN top
                 ELSE IF IsErr(bot) THEN bot
                 ELSE LET fs == <<ParseFloat(top.a), ParseFloat(top.b),
                                  ParseFloat(bot.a), ParseFloat(bot.b)>>
                      IN  IF FirstErr(fs) # None THEN FirstErr(fs)
                          ELSE [tag |-> "coords",
                                value |-> <<<<fs[1].v, fs[2].v>>, <<fs[3].v, fs[4].v>>>>]

(* ------------------------------------------------------------------ *)
(* MapManager                                                           *)
(* ------------------------------------------------------------------ *)
AreaIdKey == <<"D", "W", "R", "_", "A", "r", "e", "a", "_", "I", "D">>

CoordinatesKey == <<"C", "o", "o", "r", "d", "i", "n", "a", "t", "e", "s">>

\* MapManager.__init__: the edges are read off the coordinates, no map is held
MapManagerInit(area_id, coordinates) ==
    [tag |-> "MapManager",
     area_id |-> area_id,
     coordinates |-> coordinates,
     lat_top |-> coordinates[1][1],
     lat_bottom |-> coordinates[2][1],
     lon_left |-> coordinates[1][2],
     lon_right |-> coordinates[2][2],
     map |-> None]

\* MapManager.init_from_config: a new MapManager, or the error raised
init_from_config(config_text) ==
    LET config == load(config_text)
    IN  IF IsErr(config) THEN config
        ELSE IF AreaIdKey \notin DOMAIN config.d THEN Err("KeyError")
        ELSE IF CoordinatesKey \notin DOMAIN config.d THEN Err("KeyError")
        ELSE LET coords == CoordinatesParse(config.d[CoordinatesKey])
             IN  IF IsErr(coords) THEN coords
                 ELSE MapManagerInit(config.d[AreaIdKey], coords.value)


(* ------------------------------------------------------------------ *)
(* Texts of the model: configuration texts and file names               *)
(* ------------------------------------------------------------------ *)
LF == <<"\n">>

\* the lines a configuration text of the model is made of, by name
ConfigLine(name) ==
    CASE name = "area_quoted" ->
           \* DWR_Area_ID="ABC123"
           AreaIdKey \o <<"=", "\"", "A", "B", "C", "1", "2", "3", "\"">> \o LF
      [] name = "area_bare" ->
           \* DWR_Area_ID=ABC123
           AreaIdKey \o <<"=", "A", "B", "C", "1", "2", "3">> \o LF
      [] name = "area_dotdot" ->
           \* DWR_Area_ID="../x"
           AreaIdKey \o <<"=", "\"", ".", ".", "/", "x", "\"">> \o LF
      [] name = "area_slash" ->
           \* DWR_Area_ID="a/b"
           AreaIdKey \o <<"=", "\"", "a", "/", "b", "\"">> \o LF
      [] name = "coords_parens" ->
           \* Coordinates=("40.0,-75.0");("39.0,-74.0")
           CoordinatesKey \o
           <<"=", "(", "\"", "4", "0", ".", "0", ",", "-", "7", "5", ".", "0", "\"", ")",
             ";", "(", "\"", "3", "9", ".", "0", ",", "-", "7", "4", ".", "0", "\"", ")">>
           \o LF
      [] name = "coords_quoted" ->
           \* Coordinates="(40.0,-75.0)";"(39.0,-74.0)"
           CoordinatesKey \o
           <<"=", "\"", "(", "4", "0", ".", "0", ",", "-", "7", "5", ".", "0", ")", "\"",
             ";", "\"", "(", "3", "9", ".", "0", ",", "-", "7", "4", ".", "0", ")", "\"">>
           \o LF
      [] name = "coords_three" ->
           \* Coordinates="(40.0,-75.0)";"(39.0,-74.0)";"(1,2)"
           CoordinatesKey \o
           <<"=", "\"", "(", "4", "0", ".", "0", ",", "-", "7", "5", ".", "0", ")", "\"",
             ";", "\"", "(", "3", "9", ".", "0", ",", "-", "7", "4", ".", "0", ")", "\"",
             ";", "\"", "(", "1", ",", "2", ")", "\"">>
           \o LF
      [] name = "coords_one" ->
           \* Coordinates="(40.0,-75.0)"
           CoordinatesKey \o
           <<"=", "\"", "(", "4", "0", ".", "0", ",", "-", "7", "5", ".", "0", ")", "\"">>
           \o LF
      [] name = "coords_words" ->
           \* Coordinates="(north,west)";"(south,east)"
           CoordinatesKey \o
           <<"=", "\"", "(", "n", "o", "r", "t", "h", ",", "w", "e", "s", "t", ")", "\"",
             ";", "\"", "(", "s", "o", "u", "t", "h", ",", "e", "a", "s", "t", ")", "\"">>
           \o LF
      [] name = "coords_empty" ->
           \* Coordinates=
           CoordinatesKey \o <<"=">> \o LF
      [] name = "comment" ->
           \* # radar
           <<"#", " ", "r", "a", "d", "a", "r">> \o LF
      [] name = "absent" -> <<>>

FirstLines == {"absent", "comment", "coords_one"}

AreaLines == {"area_quoted", "area_bare", "area_dotdot", "area_slash", "absent"}

CoordsLines ==
    {"coords_parens", "coords_quoted", "coords_three", "coords_one", "coords_words",
     "coords_empty", "absent"}

\* the configuration texts of the model: three lines, each possibly absent
ConfigNames ==
    [first : FirstLines, area : AreaLines, coords : CoordsLines]

ConfigText(name) ==
    ConfigLine(name.first) \o ConfigLine(name.area) \o ConfigLine(name.coords)

\* the text of the specification's example
ParensConfig == [first |-> "absent", area |-> "area_quoted", coords |-> "coords_parens"]

QuotedConfig == [first |-> "absent", area |-> "area_quoted", coords |-> "coords_quoted"]

\* the area ids and coordinates MapManager is constructed with
AreaIds == {Str(<<"A", "B", "C", "1", "2", "3">>)}

CoordinateValues ==
    {<<<<400, -750>>, <<390, -740>>>>, <<<<415, -760>>, <<385, -730>>>>}

\* names of the files that can appear in the dump directory
OverlayFileNames == {"DWRO_A.png", "DWRO_B.png"}

\* one tile file for each of the nine slots
SlotTileNames ==
    {"TMT_a_1_1_x.png", "TMT_a_1_2_x.png", "TMT_a_1_3_x.png",
     "TMT_a_2_1_x.png", "TMT_a_2_2_x.png", "TMT_foo_2_3_bar.png",
     "TMT_a_3_1_x.png", "TMT_a_3_2_x.png", "TMT_a_3_3_x.png"}

\* a second tile file for the first slot, and one without coordinates
TileFileNames == SlotTileNames \cup {"TMT_b_1_1_x.png", "TMT_nomatch.png"}

\* the tile files the decoder writes while the dump directory is polled
PollTileNames ==
    {"TMT_a_1_1_x.png", "TMT_b_1_1_x.png", "TMT_foo_2_3_bar.png", "TMT_nomatch.png"}

\* the area configuration file of the station
ConfigFileNames == {"DWRI_a.txt"}

\* what every poll of the dump directory can find there
IngestFileNames == OverlayFileNames \cup PollTileNames \cup ConfigFileNames

\* a file whose name both glob('*DWRO*') and glob('*TMT*') match
SharedFileNames == {"TMT_DWRO_1_1_x.png"}

FileNames == OverlayFileNames \cup TileFileNames \cup ConfigFileNames \cup SharedFileNames

NameChars(name) ==
    CASE name = "DWRI_a.txt" -> <<"D", "W", "R", "I", "_", "a", ".", "t", "x", "t">>
      [] name = "TMT_DWRO_1_1_x.png" ->
           <<"T", "M", "T", "_", "D", "W", "R", "O", "_", "1", "_", "1", "_", "x",
             ".", "p", "n", "g">>
      [] name = "DWRO_A.png" -> <<"D", "W", "R", "O", "_", "A", ".", "p", "n", "g">>
      [] name = "DWRO_B.png" -> <<"D", "W", "R", "O", "_", "B", ".", "p", "n", "g">>
      [] name = "TMT_a_1_1_x.png" ->
           <<"T", "M", "T", "_", "a", "_", "1", "_", "1", "_", "x", ".", "p", "n", "g">>
      [] name = "TMT_a_1_2_x.png" ->
           <<"T", "M", "T", "_", "a", "_", "1", "_", "2", "_", "x", ".", "p", "n", "g">>
      [] name = "TMT_a_1_3_x.png" ->
           <<"T", "M", "T", "_", "a", "_", "1", "_", "3", "_", "x", ".", "p", "n", "g">>
      [] name = "TMT_a_2_1_x.png" ->
           <<"T", "M", "T", "_", "a", "_", "2", "_", "1", "_", "x", ".", "p", "n", "g">>
      [] name = "TMT_a_2_2_x.png" ->
           <<"T", "M", "T", "_", "a", "_", "2", "_", "2", "_", "x", ".", "p", "n", "g">>
      [] name = "TMT_foo_2_3_bar.png" ->
           <<"T", "M", "T", "_", "f", "o", "o", "_", "2", "_", "3", "_", "b", "a", "r", ".", "p", "n", "g">>
      [] name = "TMT_a_3_1_x.png" ->
           <<"T", "M", "T", "_", "a", "_", "3", "_", "1", "_", "x", ".", "p", "n", "g">>
      [] name = "TMT_a_3_2_x.png" ->
           <<"T", "M", "T", "_", "a", "_", "3", "_", "2", "_", "x", ".", "p", "n", "g">>
      [] name = "TMT_a_3_3_x.png" ->
           <<"T", "M", "T", "_", "a", "_", "3", "_", "3", "_", "x", ".", "p", "n", "g">>
      [] name = "TMT_b_1_1_x.png" ->
           <<"T", "M", "T", "_", "b", "_", "1", "_", "1", "_", "x", ".", "p", "n", "g">>
      [] name = "TMT_nomatch.png" ->
           <<"T", "M", "T", "_", "n", "o", "m", "a", "t", "c", "h", ".", "p", "n", "g">>

\* most files that are in the dump directory at one time
MaxDumpFiles == 2

(* ------------------------------------------------------------------ *)
(* Images                                                               *)
(* ------------------------------------------------------------------ *)
\* the decoded content of an image file of the dump directory
FileImage(name) == [tag |-> "image", kind |-> "file", src |-> name, mode |-> "file"]

\* Image.convert('RGBA')
ConvertRGBA(image) == [image EXCEPT !.mode = "RGBA"]

\* MapManager.create_map past the loading of the main map: the crop of the
\* main map to the edges of the manager, resized and converted
CropOf(m) ==
    ConvertRGBA([tag |-> "image", kind |-> "map", mode |-> "main",
                 src |-> <<<<m.lat_top, m.lon_left>>, <<m.lat_bottom, m.lon_right>>>>])

\* utils.timestamp(): its default argument is evaluated once, at import
ImportTime == "import_time"

\* overlay_image with a guard that hands the map back when there is no overlay
overlay_image_without_overlay(radar_overlay, map_image) ==
    IF radar_overlay = None THEN map_image
    ELSE IF map_image.mode # "RGBA" THEN Err("ValueError")
    ELSE [tag |-> "image", kind |-> "radar", mode |-> "RGBA",
          base |-> map_image.src, overlay |-> radar_overlay.src, stamp |-> ""]

\* DopplerRadarManager.overlay_image: resize of None raises, alpha_composite
\* takes two RGBA images
overlay_image(radar_overlay, map_image) ==
    IF radar_overlay = None THEN Err("AttributeError")
    ELSE IF map_image.mode # "RGBA" THEN Err("ValueError")
    ELSE [tag |-> "image", kind |-> "radar", mode |-> "RGBA",
          base |-> map_image.src, overlay |-> radar_overlay.src, stamp |-> ""]

\* DopplerRadarManager.timestamp_image: draws the time stamp on the image
timestamp_image(image) == [image EXCEPT !.stamp = ImportTime]


(* ------------------------------------------------------------------ *)
(* State                                                                *)
(* ------------------------------------------------------------------ *)
VARIABLES
    map_manager,        \* the MapManager instance in use, None before the first
    radar,              \* the DopplerRadarManager: [overlay, _radar_map], or None
    cache_directory,    \* static_config.cache_directory: file name -> image
    cache_writable,     \* whether files can be created and removed in it
    main_map_present,   \* whether static_config.main_map_file exists
    dump_directory,     \* static_config.dump_directory: the names of its files
    config_text,        \* the configuration text behind the file handle read
    _tiles,             \* TrafficMapManager._tiles
    _traffic_map,       \* TrafficMapManager._traffic_map: slot -> pasted tile
    lastOp,             \* the last operation called or event, with its argument
    prevOp,             \* the name of the operation called before the last call
    result,             \* what the last operation returned or raised
    fx,                 \* the disk accesses of the last operation
    area_map,           \* the AreaMap: its area id and its four coordinates
    timers,             \* the frames whose update_event_handler is scheduled
    traffic_panel,      \* TrafficFrame.traffic_panel.image
    weather_panel       \* RadarFrame.weather_panel.image

vars ==
    <<map_manager, radar, cache_directory, cache_writable, main_map_present,
      dump_directory, config_text, _tiles, _traffic_map, lastOp, prevOp, result, fx,
      area_map, timers, traffic_panel, weather_panel>>

Op(name, arg) == [name |-> name, arg |-> arg]

NoFx == [main_map_read |-> FALSE, cache_unlinked |-> FALSE, cache_saved |-> FALSE]

(* ------------------------------------------------------------------ *)
(* MapManager.map                                                       *)
(* ------------------------------------------------------------------ *)
\* str() of a value inside an f-string
RECURSIVE ReprItems(_)
ReprItems(l) ==
    IF l = <<>> THEN <<>>
    ELSE (IF l[1].tag = "str" THEN <<"'">> \o l[1].s \o <<"'">>
          ELSE <<"N", "o", "n", "e">>)
         \o (IF Len(l) > 1 THEN <<",", " ">> ELSE <<>>) \o ReprItems(Tail(l))

Format(value) ==
    CASE value.tag = "str" -> value.s
      [] value.tag = "list" -> <<"[">> \o ReprItems(value.l) \o <<"]">>
      [] OTHER -> <<"N", "o", "n", "e">>

\* MapManager.map_cache_file, relative to the cache directory
map_cache_file(m) ==
    <<"m", "a", "p", "_">> \o Format(m.area_id) \o <<".", "p", "n", "g">>

\* Path.exists() of a cache file
Exists(cache, file) == file \in DOMAIN cache

\* a save that writes an image without the content of the one it was given
WriteFileBlank(cache, file, image) ==
    [f \in (DOMAIN cache) \cup {file} |->
        IF f = file THEN [image EXCEPT !.src = <<>>] ELSE cache[f]]

\* the cache directory with the image saved as the file
WriteFile(cache, file, image) ==
    [f \in (DOMAIN cache) \cup {file} |-> IF f = file THEN image ELSE cache[f]]

\* the cache directory with the file removed
Unlink(cache, file) == [f \in (DOMAIN cache) \ {file} |-> cache[f]]

\* the setter saving the crop of the manager's own coordinates in place of the
\* image it was given
MapSetterSavingOwnCrop(m, cache, value) ==
    IF ~cache_writable
    THEN [m |-> [m EXCEPT !.map = value], cache |-> cache,
          err |-> Err("PermissionError"), fx |-> NoFx]
    ELSE [m |-> [m EXCEPT !.map = value],
          cache |-> WriteFile(Unlink(cache, map_cache_file(m)), map_cache_file(m), CropOf(m)),
          err |-> None,
          fx |-> [NoFx EXCEPT !.cache_unlinked = Exists(cache, map_cache_file(m)),
                              !.cache_saved = TRUE]]

\* The setter of MapManager.map: the attribute is assigned first, then an
\* existing cache file is unlinked, then the image is saved.  In a directory
\* that is not writable the unlink, or else the save, raises.
MapSetter(m, cache, value) ==
    LET file == map_cache_file(m)
        held == [m EXCEPT !.map = value]
    IN  IF ~cache_writable
        THEN [m |-> held, cache |-> cache, err |-> Err("PermissionError"),
              fx |-> NoFx]
        ELSE [m |-> held, cache |-> WriteFile(Unlink(cache, file), file, value),
              err |-> None,
              fx |-> [NoFx EXCEPT !.cache_unlinked = Exists(cache, file),
                                  !.cache_saved = TRUE]]

\* MapManager._load_main_map
_load_main_map ==
    IF main_map_present THEN [tag |-> "image", kind |-> "main"]
    ELSE Err("FileNotFoundError")

\* MapManager.create_map
create_map(m) == IF IsErr(_load_main_map) THEN _load_main_map ELSE CropOf(m)

\* the getter without its look at the cache file: it generates whenever no
\* image is held
MapGetterWithoutCacheFile(m, cache) ==
    IF m.map # None
    THEN [ret |-> m.map, m |-> m, cache |-> cache, fx |-> NoFx]
    ELSE LET map_image == create_map(m)
         IN  IF IsErr(map_image)
             THEN [ret |-> map_image, m |-> m, cache |-> cache, fx |-> NoFx]
             ELSE LET set == MapSetter(m, cache, map_image)
                  IN  [ret |-> IF IsErr(set.err) THEN set.err ELSE map_image,
                       m |-> set.m, cache |-> set.cache,
                       fx |-> [set.fx EXCEPT !.main_map_read = TRUE]]

\* the getter that saves the cache file and holds no image afterwards
MapGetterWithoutMemo(m, cache) ==
    IF m.map # None
    THEN [ret |-> m.map, m |-> m, cache |-> cache, fx |-> NoFx]
    ELSE IF Exists(cache, map_cache_file(m))
    THEN LET map_image == cache[map_cache_file(m)]
             set == MapSetter(m, cache, map_image)
         IN  [ret |-> IF IsErr(set.err) THEN set.err ELSE ConvertRGBA(map_image),
              m |-> m, cache |-> set.cache, fx |-> set.fx]
    ELSE LET map_image == create_map(m)
         IN  IF IsErr(map_image)
             THEN [ret |-> map_image, m |-> m, cache |-> cache, fx |-> NoFx]
             ELSE LET set == MapSetter(m, cache, map_image)
                  IN  [ret |-> IF IsErr(set.err) THEN set.err ELSE map_image,
                       m |-> m, cache |-> set.cache,
                       fx |-> [set.fx EXCEPT !.main_map_read = TRUE]]

\* the getter that generates the map on every call
MapGetterAlwaysGenerating(m, cache) ==
    LET map_image == create_map(m)
    IN  IF IsErr(map_image)
        THEN [ret |-> map_image, m |-> m, cache |-> cache, fx |-> NoFx]
        ELSE LET set == MapSetter(m, cache, map_image)
             IN  [ret |-> IF IsErr(set.err) THEN set.err ELSE map_image,
                  m |-> set.m, cache |-> set.cache,
                  fx |-> [set.fx EXCEPT !.main_map_read = TRUE]]

\* The getter of MapManager.map: what it returns or raises (ret), the manager
\* and the cache directory after it, and its disk accesses.
MapGetter(m, cache) ==
    IF m.map # None
    THEN [ret |-> m.map, m |-> m, cache |-> cache, fx |-> NoFx]
    ELSE IF Exists(cache, map_cache_file(m))
    THEN LET map_image == cache[map_cache_file(m)]
             set == MapSetter(m, cache, map_image)
         IN  [ret |-> IF IsErr(set.err) THEN set.err ELSE ConvertRGBA(map_image),
              m |-> set.m, cache |-> set.cache, fx |-> set.fx]
    ELSE LET map_image == create_map(m)
         IN  IF IsErr(map_image)
             THEN [ret |-> map_image, m |-> m, cache |-> cache, fx |-> NoFx]
             ELSE LET set == MapSetter(m, cache, map_image)
                  IN  [ret |-> IF IsErr(set.err) THEN set.err ELSE map_image,
                       m |-> set.m, cache |-> set.cache,
                       fx |-> [set.fx EXCEPT !.main_map_read = TRUE]]


(* ------------------------------------------------------------------ *)
(* DopplerRadarManager                                                  *)
(* ------------------------------------------------------------------ *)
\* DopplerRadarManager.__init__
DopplerRadarManagerInit(overlay) == [overlay |-> overlay, _radar_map |-> None]

\* DopplerRadarManager.has_overlay
has_overlay(r) == r.overlay # None

\* update_overlay dropping the overlay of a manager that already has one
update_overlay_dropping(r, overlay) ==
    [r EXCEPT !.overlay = IF r.overlay # None THEN None ELSE overlay]

\* DopplerRadarManager.update_overlay
update_overlay(r, overlay) == [r EXCEPT !.overlay = overlay]

\* The getter of DopplerRadarManager.radar_map.  The arguments of overlay_image
\* are evaluated first, so the map getter runs before the overlay is used.
RadarMapGetter(r, m, cache) ==
    IF r._radar_map # None
    THEN [ret |-> r._radar_map, r |-> r, m |-> m, cache |-> cache, fx |-> NoFx]
    ELSE LET g == MapGetter(m, cache)
             composed == IF IsErr(g.ret) THEN g.ret ELSE overlay_image(r.overlay, g.ret)
         IN  IF IsErr(composed)
             THEN [ret |-> composed, r |-> r, m |-> g.m, cache |-> g.cache, fx |-> g.fx]
             ELSE [ret |-> timestamp_image(composed),
                   r |-> [r EXCEPT !._radar_map = timestamp_image(composed)],
                   m |-> g.m, cache |-> g.cache, fx |-> g.fx]

\* glob('*DWRO*') on the dump directory
OverlayPattern == <<"D", "W", "R", "O">>

\* the file names a pattern '*pattern*' matches
Matching(pattern) == {n \in FileNames : Contains(NameChars(n), pattern)}

OverlayFiles == Matching(OverlayPattern)

Glob(dir, matching) == dir \cap matching

\* the orders in which a directory listing can give a set of files
Listings(S) ==
    {l \in [1..Cardinality(S) -> S] : \A i, j \in 1..Cardinality(S) : l[i] = l[j] => i = j}

(* ------------------------------------------------------------------ *)
(* TrafficTile and TrafficMapManager                                    *)
(* ------------------------------------------------------------------ *)
\* TrafficTile.load_file
load_file(filename) == [filename |-> filename, image |-> ConvertRGBA(FileImage(filename))]

\* where re.search('_([123])_([123])_', s) can match
CoordinateMatches(s) ==
    {i \in 1..(Len(s) - 4) :
        /\ s[i] = "_" /\ s[i + 1] \in {"1", "2", "3"}
        /\ s[i + 2] = "_" /\ s[i + 3] \in {"1", "2", "3"}
        /\ s[i + 4] = "_"}

\* xy_coordinates with the two groups taken the other way round
xy_coordinates_row_first(filename) ==
    LET s == NameChars(filename)
    IN  IF CoordinateMatches(s) = {} THEN Err("Exception")
        ELSE LET i == Min(CoordinateMatches(s))
             IN  [tag |-> "xy", x |-> DigitVal(s[i + 1]) - 1, y |-> DigitVal(s[i + 3]) - 1]

\* TrafficTile.xy_coordinates: (column - 1, row - 1) of the leftmost match
xy_coordinates(filename) ==
    LET s == NameChars(filename)
    IN  IF CoordinateMatches(s) = {} THEN Err("Exception")
        ELSE LET i == Min(CoordinateMatches(s))
             IN  [tag |-> "xy", x |-> DigitVal(s[i + 3]) - 1, y |-> DigitVal(s[i + 1]) - 1]

\* the entries of _tiles
Slots == 0..8

\* the offsets of the nine regions of the 600 x 600 canvas
Offsets == {<<x * 200, y * 200>> : x \in 0..2, y \in 0..2}

\* TrafficMapManager.__init__: nine empty entries and an empty canvas
TilesInit == [i \in Slots |-> None]

\* a region of Image.new('RGBA', (600, 600)) that nothing was pasted on
Transparent == [tag |-> "image", kind |-> "new", src |-> "", mode |-> "RGBA"]

TrafficMapInit == [o \in Offsets |-> Transparent]

\* _paste_tile onto a canvas that is cleared first
_paste_tile_on_cleared(traffic_map, tile) ==
    LET xy == xy_coordinates(tile.filename)
    IN  [o \in Offsets |-> IF o = <<xy.x * 200, xy.y * 200>> THEN tile.image
                           ELSE Transparent]

\* _paste_tile that leaves a region alone once a tile was pasted there
_paste_tile_once(traffic_map, tile) ==
    LET xy == xy_coordinates(tile.filename)
    IN  IF traffic_map[<<xy.x * 200, xy.y * 200>>] = Transparent
        THEN [traffic_map EXCEPT ![<<xy.x * 200, xy.y * 200>>] = tile.image]
        ELSE traffic_map

\* TrafficMapManager._paste_tile, for a tile that has coordinates
_paste_tile(traffic_map, tile) ==
    LET xy == xy_coordinates(tile.filename)
    IN  [traffic_map EXCEPT ![<<xy.x * 200, xy.y * 200>>] = tile.image]

\* add_tile that starts over with an empty table and canvas when the name has
\* no coordinates
add_tile_clearing_on_error(tiles, traffic_map, tile) ==
    LET xy == xy_coordinates(tile.filename)
    IN  IF IsErr(xy)
        THEN [tiles |-> TilesInit, map |-> TrafficMapInit, err |-> xy]
        ELSE [tiles |-> [tiles EXCEPT ![xy.x + xy.y * 3] = tile],
              map |-> _paste_tile(traffic_map, tile),
              err |-> None]

\* TrafficMapManager.add_tile: the table and the canvas after it, and the
\* error it raised
add_tile(tiles, traffic_map, tile) ==
    LET xy == xy_coordinates(tile.filename)
    IN  IF IsErr(xy)
        THEN [tiles |-> tiles, map |-> traffic_map, err |-> xy]
        ELSE [tiles |-> [tiles EXCEPT ![xy.x + xy.y * 3] = tile],
              map |-> _paste_tile(traffic_map, tile),
              err |-> None]

RECURSIVE AddFiles(_, _, _, _)
\* the loop of find_and_add_tiles: each file is added and then unlinked; an
\* exception of add_tile leaves the loop with the file and the rest in place
AddFiles(files, tiles, traffic_map, dir) ==
    IF files = <<>>
    THEN [tiles |-> tiles, map |-> traffic_map, dir |-> dir, err |-> None]
    ELSE LET added == add_tile(tiles, traffic_map, load_file(files[1]))
         IN  IF IsErr(added.err)
             THEN [tiles |-> tiles, map |-> traffic_map, dir |-> dir, err |-> added.err]
             ELSE AddFiles(Tail(files), added.tiles, added.map, dir \ {files[1]})

\* TrafficMapManager.find_and_add_tiles on a listing of the tile files: False
\* for an empty listing, the exception of add_tile, or True
find_and_add_tiles(files, tiles, traffic_map, dir) ==
    IF Len(files) = 0
    THEN [tiles |-> tiles, map |-> traffic_map, dir |-> dir, ret |-> False]
    ELSE LET done == AddFiles(files, tiles, traffic_map, dir)
         IN  [tiles |-> done.tiles, map |-> done.map, dir |-> done.dir,
              ret |-> IF IsErr(done.err) THEN done.err ELSE True]

\* glob('*TMT*') on the dump directory
TilePattern == <<"T", "M", "T">>

TileFiles == Matching(TilePattern)

(* ------------------------------------------------------------------ *)
(* AreaMap                                                              *)
(* ------------------------------------------------------------------ *)
\* AreaMap.__init__
AreaMapInit ==
    [area_id |-> None, lat1 |-> None, lon1 |-> None, lat2 |-> None, lon2 |-> None]

\* glob('DWRI_*') on the dump directory
ConfigPrefix == <<"D", "W", "R", "I", "_">>

ConfigFiles ==
    {n \in FileNames : SubSeq(NameChars(n), 1, Len(ConfigPrefix)) = ConfigPrefix}

\* re.findall(r'\"(.+?)\"', line)[0]: the shortest text of at least one
\* character between the first double quote and a later one
FirstQuoted(line) ==
    LET q == Positions(line, "\"")
        closing == IF q = {} THEN {} ELSE {j \in q : j >= Min(q) + 2}
    IN  IF closing = {} THEN Err("IndexError")
        ELSE Str(SubSeq(line, Min(q) + 1, Min(closing) - 1))

\* the length of the run of digits of s that starts at position k
DigitRun(s, k) == Min({j \in k..(Len(s) + 1) : j = Len(s) + 1 \/ s[j] \notin Digits}) - k

\* where a match of [-+]?\d*\.\d+|\d+ that starts at position i ends, 0 for no
\* match
NumberEnd(s, i) ==
    LET k == IF s[i] \in {"+", "-"} THEN i + 1 ELSE i
        d == DigitRun(s, k)
        e == DigitRun(s, k + d + 1)
    IN  IF k + d <= Len(s) /\ s[k + d] = "." /\ e >= 1 THEN k + d + e
        ELSE IF DigitRun(s, i) >= 1 THEN i + DigitRun(s, i) - 1
        ELSE 0

RECURSIVE Numbers(_, _)
\* re.findall(r"[-+]?\d*\.\d+|\d+", s) from position i on
Numbers(s, i) ==
    IF i > Len(s) THEN <<>>
    ELSE IF NumberEnd(s, i) = 0 THEN Numbers(s, i + 1)
    ELSE <<SubSeq(s, i, NumberEnd(s, i))>> \o Numbers(s, NumberEnd(s, i) + 1)

RECURSIVE GetConfigLines(_, _)
\* the loop of get_config over the lines of the file: an exception leaves it
\* with what the earlier lines assigned
GetConfigLines(lines, am) ==
    IF lines = <<>> THEN [am |-> am, err |-> None]
    ELSE IF Contains(lines[1], <<"D", "W", "R", "_", "A", "r", "e", "a", "_", "I", "D">>)
    THEN LET id == FirstQuoted(lines[1])
         IN  IF IsErr(id) THEN [am |-> am, err |-> id]
             ELSE GetConfigLines(Tail(lines), [am EXCEPT !.area_id = id])
    ELSE IF Contains(lines[1], <<"C", "o", "o", "r", "d", "i", "n", "a", "t", "e", "s">>)
    THEN LET coords == Numbers(lines[1], 1)
             floats == [i \in 1..Len(coords) |-> ParseFloat(coords[i])]
         IN  IF FirstErr(floats) # None THEN [am |-> am, err |-> FirstErr(floats)]
             ELSE IF Len(floats) # 4 THEN [am |-> am, err |-> Err("ValueError")]
             ELSE GetConfigLines(Tail(lines),
                                 [am EXCEPT !.lat1 = floats[1].v, !.lon1 = floats[2].v,
                                            !.lat2 = floats[3].v, !.lon2 = floats[4].v])
    ELSE GetConfigLines(Tail(lines), am)

\* AreaMap.get_config on a listing of the configuration files: the first file
\* is read; no file is removed
get_config(am, files, text) ==
    IF Len(files) = 0 THEN [am |-> am, ret |-> False]
    ELSE LET done == GetConfigLines(Split(text, "\n"), am)
         IN  [am |-> done.am, ret |-> IF IsErr(done.err) THEN done.err ELSE True]

(* ------------------------------------------------------------------ *)
(* NRSC5Program: the command line of the decoder                        *)
(* ------------------------------------------------------------------ *)
DigitChar(d) ==
    CASE d = 0 -> "0" [] d = 1 -> "1" [] d = 2 -> "2" [] d = 3 -> "3" [] d = 4 -> "4"
      [] d = 5 -> "5" [] d = 6 -> "6" [] d = 7 -> "7" [] d = 8 -> "8" [] d = 9 -> "9"

RECURSIVE NatDigits(_)
NatDigits(n) ==
    IF n < 10 THEN <<DigitChar(n)>> ELSE NatDigits(n \div 10) \o <<DigitChar(n % 10)>>

\* str() of an int
StrInt(n) == IF n < 0 THEN <<"-">> \o NatDigits(0 - n) ELSE NatDigits(n)

\* str() of a float, kept in tenths
StrFloat(t) ==
    LET mag == IF t < 0 THEN 0 - t ELSE t
    IN  (IF t < 0 THEN <<"-">> ELSE <<>>)
        \o NatDigits(mag \div 10) \o <<".">> \o <<DigitChar(mag % 10)>>

\* int(s) for a signed run of digits
ParseInt(s) ==
    LET signed == Len(s) > 0 /\ s[1] \in {"+", "-"}
        body == IF signed THEN Tail(s) ELSE s
    IN  IF body = <<>> \/ \E i \in 1..Len(body) : body[i] \notin Digits
        THEN Err("ValueError")
        ELSE IF signed /\ s[1] = "-" THEN 0 - DigitsVal(body) ELSE DigitsVal(body)

\* BooleanArg, KeyValArg and PositionalArg
BooleanArg(flag) == [kind |-> "boolean", flag |-> flag, value |-> FALSE]

KeyValArg(flag) == [kind |-> "keyval", flag |-> flag, value |-> None, is_required |-> FALSE]

PositionalArg == [kind |-> "positional", value |-> None, is_required |-> TRUE]

\* set_arg of the three classes
set_arg(arg, value) == [arg EXCEPT !.value = value]

\* format_arg of the three classes
format_arg(arg) ==
    CASE arg.kind = "boolean" -> IF arg.value THEN Lst(<<arg.flag>>) ELSE Lst(<<>>)
      [] arg.kind = "keyval" ->
           IF arg.value = None
           THEN (IF arg.is_required THEN Err("Exception") ELSE Lst(<<>>))
           ELSE Lst(<<arg.flag, arg.value.s>>)
      [] arg.kind = "positional" ->
           IF arg.value = None
           THEN (IF arg.is_required THEN Err("Exception") ELSE Lst(<<>>))
           ELSE Lst(<<arg.value.s>>)

RECURSIVE format_multiple_args(_)
\* Arg.format_multiple_args
format_multiple_args(args) ==
    IF args = <<>> THEN Lst(<<>>)
    ELSE LET first == format_arg(args[1])
             rest == format_multiple_args(Tail(args))
         IN  IF IsErr(first) THEN first ELSE IF IsErr(rest) THEN rest
             ELSE Lst(first.l \o rest.l)

GainFlag == <<"-", "g">>

\* NRSC5Program.__init__
NRSC5ProgramInit(exec_path) ==
    [exec_path |-> exec_path,
     version |-> BooleanArg(<<"-", "v">>),
     q |-> BooleanArg(<<"-", "q">>),
     log_level |-> KeyValArg(<<"-", "l">>),
     device_index |-> KeyValArg(<<"-", "d">>),
     ppm_error |-> KeyValArg(<<"-", "p">>),
     gain |-> KeyValArg(GainFlag),
     iq_input |-> KeyValArg(<<"-", "r">>),
     iq_output |-> KeyValArg(<<"-", "w">>),
     wav_output |-> KeyValArg(<<"-", "o">>),
     hdc_output |-> KeyValArg(<<"-", "-", "d", "u", "m", "p", "-", "h", "d", "c">>),
     aas_output |-> KeyValArg(<<"-", "-", "d", "u", "m", "p", "-", "a", "a", "s", "-", "f", "i", "l", "e", "s">>),
     frequency |-> PositionalArg,
     program |-> PositionalArg]

\* NRSC5Program.string_if_not_none of a float
string_if_not_none(v) == IF v = None THEN None ELSE Str(StrFloat(v.v))

\* str(-1.0), the gain that stands for 'auto'
AutoGain == Str(StrFloat(0 - 10))

\* NRSC5Program._get_args_list
_get_args_list(p) ==
    LET boolean_args == format_multiple_args(<<p.version, p.q>>)
        gain_arg == IF p.gain.value = AutoGain THEN <<p.gain>> ELSE <<>>
        key_val_args == format_multiple_args(
            <<p.log_level, p.device_index, p.ppm_error>> \o gain_arg
            \o <<p.iq_input, p.iq_output, p.wav_output, p.hdc_output, p.aas_output>>)
        positional_args == format_multiple_args(<<p.frequency, p.program>>)
    IN  IF IsErr(boolean_args) THEN boolean_args
        ELSE IF IsErr(key_val_args) THEN key_val_args
        ELSE IF IsErr(positional_args) THEN positional_args
        ELSE Lst(<<p.exec_path>> \o boolean_args.l \o key_val_args.l \o positional_args.l)

\* NRSC5Program.config_channel_tune
config_channel_tune(p, freq, program, device_index, ppm_error, gain) ==
    [p EXCEPT !.frequency = set_arg(@, Str(StrFloat(freq))),
              !.program = set_arg(@, Str(StrInt(program))),
              !.device_index = set_arg(@, Str(StrInt(device_index))),
              !.ppm_error = set_arg(@, Str(StrInt(ppm_error))),
              !.gain = set_arg(@, string_if_not_none(gain))]

\* NRSC5Program.config_dump_dir
config_dump_dir(p, directory) == [p EXCEPT !.aas_output = set_arg(@, Str(directory))]

\* the settings of the station form: the gain dropdown offers 'auto' and the
\* gain levels
Auto == <<"a", "u", "t", "o">>

GainOptions == {Auto, <<"0", ".", "0">>, <<"2", "8", ".", "0">>, <<"4", "9", ".", "6">>}

FrequencyOptions == {<<"8", "8", ".", "1">>, <<"1", "0", "4", ".", "5">>}

ProgramOptions == {<<"1">>, <<"2">>, <<"3">>, <<"4">>}

DeviceOptions == {<<"0">>, <<"1">>}

PpmOptions == {<<"0">>, <<"-", "2">>, <<"1", "5">>}

StationSettings ==
    [gain : GainOptions, frequency : FrequencyOptions, program : ProgramOptions,
     device : DeviceOptions, ppm_error : PpmOptions]

NrscPath == <<"/", "u", "s", "r", "/", "b", "i", "n", "/", "n", "r", "s", "c", "5">>

DumpDirectoryPath == <<"/", "t", "m", "p", "/", "d", "u", "m", "p">>

\* Root.start_nrsc5__rtl up to the command line that start() executes
start_nrsc5__rtl(state_vars) ==
    LET gain == state_vars.gain
        tuned == config_channel_tune(
                     NRSC5ProgramInit(NrscPath),
                     ParseFloat(state_vars.frequency).v,
                     ParseInt(state_vars.program) - 1,
                     ParseInt(state_vars.device),
                     ParseInt(state_vars.ppm_error),
                     IF gain # Auto THEN ParseFloat(gain) ELSE [tag |-> "float", v |-> 0 - 10])
    IN  _get_args_list(config_dump_dir(tuned, DumpDirectoryPath))

(* ------------------------------------------------------------------ *)
(* Operations                                                           *)
(* ------------------------------------------------------------------ *)
TrafficUnchanged == UNCHANGED <<_tiles, _traffic_map, config_text>>

RadarUnchanged ==
    UNCHANGED <<map_manager, radar, cache_directory, cache_writable, main_map_present>>

\* a call is on record: its name and argument, what it returned or raised and
\* its disk accesses
Recorded(name, arg, res, effects) ==
    /\ prevOp' = lastOp.name
    /\ lastOp' = Op(name, arg)
    /\ result' = res
    /\ fx' = effects

\* a call of a method of the managers: the AreaMap and the frames are no part
\* of it
Called(name, arg, res, effects) ==
    /\ Recorded(name, arg, res, effects)
    /\ UNCHANGED <<area_map, timers, traffic_panel, weather_panel>>

\* an event of the environment: it is no call, so prevOp keeps the last call
Happened(name, arg) ==
    /\ lastOp' = Op(name, arg)
    /\ result' = None
    /\ fx' = NoFx
    /\ UNCHANGED <<prevOp, area_map, timers, traffic_panel, weather_panel>>

Init ==
    /\ map_manager = None
    /\ radar = None
    /\ cache_directory = [f \in {} |-> None]
    /\ cache_writable = TRUE
    /\ main_map_present = TRUE
    /\ dump_directory = {}
    /\ config_text = ParensConfig
    /\ _tiles = TilesInit
    /\ _traffic_map = TrafficMapInit
    /\ lastOp = Op("start", "")
    /\ prevOp = "start"
    /\ result = None
    /\ fx = NoFx
    /\ area_map = AreaMapInit
    /\ timers = {}
    /\ traffic_panel = None
    /\ weather_panel = None

\* MapManager(area_id, coordinates), and a DopplerRadarManager built on the
\* new manager without an overlay
NewMapManager(area_id, coordinates) ==
    /\ map_manager' = MapManagerInit(area_id, coordinates)
    /\ radar' = DopplerRadarManagerInit(None)
    /\ Called("MapManager", "", None, NoFx)
    /\ UNCHANGED <<cache_directory, cache_writable, main_map_present, dump_directory>>
    /\ TrafficUnchanged

\* DopplerRadarManager.update_overlay called with an image
UpdateOverlay(name) ==
    /\ radar # None
    /\ radar' = update_overlay(radar, ConvertRGBA(FileImage(name)))
    /\ Called("update_overlay", name, None, NoFx)
    /\ UNCHANGED <<map_manager, cache_directory, cache_writable, main_map_present,
                   dump_directory>>
    /\ TrafficUnchanged

\* update_radar_map unlinking the file it loaded and no other
UpdateRadarMapUnlinkingLoaded ==
    /\ radar # None
    /\ \E files \in Listings(Glob(dump_directory, OverlayFiles)) :
          IF Len(files) = 0
          THEN /\ UNCHANGED <<radar, dump_directory>>
               /\ Called("update_radar_map", files, False, NoFx)
          ELSE /\ radar' = update_overlay(radar, ConvertRGBA(FileImage(files[1])))
               /\ dump_directory' = dump_directory \ {files[1]}
               /\ Called("update_radar_map", files, True, NoFx)
    /\ UNCHANGED <<map_manager, cache_directory, cache_writable, main_map_present>>
    /\ TrafficUnchanged

\* DopplerRadarManager.update_radar_map
UpdateRadarMap ==
    /\ radar # None
    /\ \E files \in Listings(Glob(dump_directory, OverlayFiles)) :
          IF Len(files) = 0
          THEN /\ UNCHANGED <<radar, dump_directory>>
               /\ Called("update_radar_map", files, False, NoFx)
          ELSE /\ radar' = update_overlay(radar, ConvertRGBA(FileImage(files[1])))
               /\ dump_directory' = dump_directory \ {files[i] : i \in 1..Len(files)}
               /\ Called("update_radar_map", files, True, NoFx)
    /\ UNCHANGED <<map_manager, cache_directory, cache_writable, main_map_present>>
    /\ TrafficUnchanged

\* a read of DopplerRadarManager.radar_map
ReadRadarMap ==
    /\ radar # None
    /\ LET g == RadarMapGetter(radar, map_manager, cache_directory)
       IN  /\ radar' = g.r
           /\ map_manager' = g.m
           /\ cache_directory' = g.cache
           /\ Called("radar_map", "", g.ret, g.fx)
    /\ UNCHANGED <<cache_writable, main_map_present, dump_directory>>
    /\ TrafficUnchanged

\* a read of MapManager.map
ReadMap ==
    /\ map_manager # None
    /\ LET g == MapGetter(map_manager, cache_directory)
       IN  /\ map_manager' = g.m
           /\ cache_directory' = g.cache
           /\ Called("map", "", g.ret, g.fx)
    /\ UNCHANGED <<radar, cache_writable, main_map_present, dump_directory>>
    /\ TrafficUnchanged

\* TrafficMapManager.add_tile called with the tile of a file
AddTile(name) ==
    LET added == add_tile(_tiles, _traffic_map, load_file(name))
    IN  /\ _tiles' = added.tiles
        /\ _traffic_map' = added.map
        /\ Called("add_tile", name, added.err, NoFx)
        /\ UNCHANGED <<dump_directory, config_text>>
        /\ RadarUnchanged

\* TrafficMapManager.find_and_add_tiles
FindAndAddTiles ==
    /\ \E files \in Listings(Glob(dump_directory, TileFiles)) :
          LET done == find_and_add_tiles(files, _tiles, _traffic_map, dump_directory)
          IN  /\ _tiles' = done.tiles
              /\ _traffic_map' = done.map
              /\ dump_directory' = done.dir
              /\ Called("find_and_add_tiles", files, done.ret, NoFx)
    /\ UNCHANGED config_text
    /\ RadarUnchanged

\* AreaMap.get_config
GetConfig ==
    /\ \E files \in Listings(Glob(dump_directory, ConfigFiles)) :
          LET done == get_config(area_map, files, ConfigText(config_text))
          IN  /\ area_map' = done.am
              /\ Recorded("get_config", files, done.ret, NoFx)
    /\ UNCHANGED <<dump_directory, timers, traffic_panel, weather_panel>>
    /\ TrafficUnchanged
    /\ RadarUnchanged

\* TrafficFrame.update_event_handler: the panel shows the traffic map when
\* tiles were added, and the handler is scheduled again at its end; an
\* exception of find_and_add_tiles leaves the handler before that
TrafficTick ==
    /\ "traffic" \in timers
    /\ \E files \in Listings(Glob(dump_directory, TileFiles)) :
          LET done == find_and_add_tiles(files, _tiles, _traffic_map, dump_directory)
          IN  /\ _tiles' = done.tiles
              /\ _traffic_map' = done.map
              /\ dump_directory' = done.dir
              /\ traffic_panel' = IF done.ret = True THEN done.map ELSE traffic_panel
              /\ timers' = IF IsErr(done.ret) THEN timers \ {"traffic"} ELSE timers
              /\ Recorded("TrafficFrame.update_event_handler", files, done.ret, NoFx)
    /\ UNCHANGED <<config_text, area_map, weather_panel>>
    /\ RadarUnchanged

\* MapManager.has_config: whether an area configuration has been loaded
has_config(m) == m # None

\* MapManager.find_and_reload_config: a configuration file found in the dump
\* directory is parsed (loaded is what init_from_config made of its text) and
\* consumed, and the manager takes its area; a malformed configuration leaves
\* the manager as it was, for the next poll
find_and_reload_config(m, files, loaded, dir) ==
    IF Len(files) = 0 THEN [m |-> m, dir |-> dir]
    ELSE IF IsErr(loaded) THEN [m |-> m, dir |-> dir]
    ELSE [m |-> loaded, dir |-> dir \ {files[i] : i \in 1..Len(files)}]

\* the configuration texts a station sends
StationConfigs == {ParensConfig, QuotedConfig}

\* init_from_config on the text with parentheses raises in Coordinates.parse
ParensLoaded == Err("TypeError")

\* init_from_config on the text with quoted coordinates
QuotedLoaded ==
    MapManagerInit(Str(<<"A", "B", "C", "1", "2", "3">>), <<<<400, -750>>, <<390, -740>>>>)

LoadedConfig(name) == IF name = QuotedConfig THEN QuotedLoaded ELSE ParensLoaded

\* the outcomes above are those of init_from_config on the two texts
LoadedConfigAgrees ==
    \A name \in StationConfigs : LoadedConfig(name) = init_from_config(ConfigText(name))

\* DopplerRadarManager.update_radar_map on a listing of the overlay files: the
\* manager and the dump directory after it, and what it returns
update_radar_map(r, files, dir) ==
    IF Len(files) = 0 THEN [r |-> r, dir |-> dir, ret |-> False]
    ELSE [r |-> update_overlay(r, ConvertRGBA(FileImage(files[1]))),
          dir |-> dir \ {files[i] : i \in 1..Len(files)},
          ret |-> True]

\* the handler reading radar_map without asking has_overlay
RadarTickReadingUnchecked ==
    /\ "radar" \in timers
    /\ \E cfiles \in Listings(Glob(dump_directory, ConfigFiles)) :
          \E c \in {find_and_reload_config(map_manager, cfiles, LoadedConfig(config_text),
                                            dump_directory)} :
          \E files \in Listings(Glob(c.dir, OverlayFiles)) :
          \E u \in {IF has_config(c.m) THEN update_radar_map(radar, files, c.dir)
                    ELSE [r |-> radar, dir |-> c.dir, ret |-> None]} :
          \E reads \in {has_config(c.m)} :
          \E g \in {IF reads
                    THEN RadarMapGetter(u.r, c.m, cache_directory)
                    ELSE [ret |-> None, r |-> u.r, m |-> c.m,
                          cache |-> cache_directory, fx |-> NoFx]} :
             /\ map_manager' = g.m
             /\ radar' = g.r
             /\ cache_directory' = g.cache
             /\ dump_directory' = u.dir
             /\ weather_panel' = IF reads /\ ~IsErr(g.ret) THEN g.ret ELSE weather_panel
             /\ timers' = IF IsErr(g.ret) THEN timers \ {"radar"} ELSE timers
             /\ Recorded("RadarFrame.update_event_handler",
                         IF u.ret = None THEN <<>> ELSE files,
                         [tag |-> "tick", updated |-> u.ret, read |-> reads,
                          image |-> g.ret],
                         g.fx)
    /\ UNCHANGED <<cache_writable, main_map_present, area_map, traffic_panel>>
    /\ TrafficUnchanged

\* the handler calling update_radar_map before it asks has_config
RadarTickPollingUnchecked ==
    /\ "radar" \in timers
    /\ \E cfiles \in Listings(Glob(dump_directory, ConfigFiles)) :
          \E c \in {find_and_reload_config(map_manager, cfiles, LoadedConfig(config_text),
                                            dump_directory)} :
          \E files \in Listings(Glob(c.dir, OverlayFiles)) :
          \E u \in {update_radar_map(radar, files, c.dir)} :
          \E reads \in {has_config(c.m) /\ has_overlay(u.r)} :
          \E g \in {IF reads
                    THEN RadarMapGetter(u.r, c.m, cache_directory)
                    ELSE [ret |-> None, r |-> u.r, m |-> c.m,
                          cache |-> cache_directory, fx |-> NoFx]} :
             /\ map_manager' = g.m
             /\ radar' = g.r
             /\ cache_directory' = g.cache
             /\ dump_directory' = u.dir
             /\ weather_panel' = IF reads /\ ~IsErr(g.ret) THEN g.ret ELSE weather_panel
             /\ timers' = IF IsErr(g.ret) THEN timers \ {"radar"} ELSE timers
             /\ Recorded("RadarFrame.update_event_handler",
                         IF u.ret = None THEN <<>> ELSE files,
                         [tag |-> "tick", updated |-> u.ret, read |-> reads,
                          image |-> g.ret],
                         g.fx)
    /\ UNCHANGED <<cache_writable, main_map_present, area_map, traffic_panel>>
    /\ TrafficUnchanged

\* RadarFrame.update_event_handler: the configuration is reloaded; with a
\* configuration the overlay files are polled, and with an overlay the panel
\* shows the radar map; the handler is scheduled again at its end, which an
\* exception of the read of radar_map does not reach.  Each step of the
\* handler is bound once (c, u, reads, g), in the order of the code.
RadarTick ==
    /\ "radar" \in timers
    /\ \E cfiles \in Listings(Glob(dump_directory, ConfigFiles)) :
          \E c \in {find_and_reload_config(map_manager, cfiles, LoadedConfig(config_text),
                                            dump_directory)} :
          \E files \in Listings(Glob(c.dir, OverlayFiles)) :
          \E u \in {IF has_config(c.m) THEN update_radar_map(radar, files, c.dir)
                    ELSE [r |-> radar, dir |-> c.dir, ret |-> None]} :
          \E reads \in {has_config(c.m) /\ has_overlay(u.r)} :
          \E g \in {IF reads
                    THEN RadarMapGetter(u.r, c.m, cache_directory)
                    ELSE [ret |-> None, r |-> u.r, m |-> c.m,
                          cache |-> cache_directory, fx |-> NoFx]} :
             /\ map_manager' = g.m
             /\ radar' = g.r
             /\ cache_directory' = g.cache
             /\ dump_directory' = u.dir
             /\ weather_panel' = IF reads /\ ~IsErr(g.ret) THEN g.ret ELSE weather_panel
             /\ timers' = IF IsErr(g.ret) THEN timers \ {"radar"} ELSE timers
             /\ Recorded("RadarFrame.update_event_handler",
                         IF u.ret = None THEN <<>> ELSE files,
                         [tag |-> "tick", updated |-> u.ret, read |-> reads,
                          image |-> g.ret],
                         g.fx)
    /\ UNCHANGED <<cache_writable, main_map_present, area_map, traffic_panel>>
    /\ TrafficUnchanged

\* Root.start_nrsc5__rtl with the settings of the station form
StartNrsc5Rtl(state_vars) ==
    /\ Called("start_nrsc5__rtl", state_vars, start_nrsc5__rtl(state_vars), NoFx)
    /\ UNCHANGED <<map_manager, radar, dump_directory>>
    /\ UNCHANGED <<cache_directory, cache_writable, main_map_present>>
    /\ TrafficUnchanged

\* IHeartRadioConfig.load on the configuration text
LoadConfig ==
    /\ Called("load", "", load(ConfigText(config_text)), NoFx)
    /\ UNCHANGED <<map_manager, radar, dump_directory>>
    /\ UNCHANGED <<cache_directory, cache_writable, main_map_present>>
    /\ TrafficUnchanged

\* MapManager.init_from_config on the configuration text, and a
\* DopplerRadarManager built on the new manager without an overlay
InitFromConfig ==
    LET m == init_from_config(ConfigText(config_text))
    IN  /\ IF IsErr(m)
           THEN UNCHANGED <<map_manager, radar>>
           ELSE /\ map_manager' = m
                /\ radar' = DopplerRadarManagerInit(None)
        /\ Called("init_from_config", "", m, NoFx)
        /\ UNCHANGED <<cache_directory, cache_writable, main_map_present, dump_directory>>
        /\ TrafficUnchanged

(* ------------------------------------------------------------------ *)
(* The environment                                                      *)
(* ------------------------------------------------------------------ *)
\* the decoder writes a file into the dump directory
FileArrives(name) ==
    /\ name \notin dump_directory
    /\ Cardinality(dump_directory) < MaxDumpFiles
    /\ dump_directory' = dump_directory \cup {name}
    /\ Happened("file_arrives", name)
    /\ UNCHANGED <<map_manager, radar, cache_directory, cache_writable, main_map_present>>
    /\ TrafficUnchanged

\* a cache file is removed from outside the program
CacheFileRemoved(file) ==
    /\ Exists(cache_directory, file)
    /\ cache_directory' = Unlink(cache_directory, file)
    /\ Happened("cache_file_removed", file)
    /\ UNCHANGED <<map_manager, radar, cache_writable, main_map_present, dump_directory>>
    /\ TrafficUnchanged

\* the permissions of the cache directory change
CacheDirectoryChmod ==
    /\ cache_writable' = ~cache_writable
    /\ Happened("cache_directory_chmod", "")
    /\ UNCHANGED <<map_manager, radar, cache_directory, main_map_present, dump_directory>>
    /\ TrafficUnchanged

\* the main map file is removed or put back
MainMapToggled ==
    /\ main_map_present' = ~main_map_present
    /\ Happened("main_map_toggled", "")
    /\ UNCHANGED <<map_manager, radar, cache_directory, cache_writable, dump_directory>>
    /\ TrafficUnchanged

Next ==
    \/ \E a \in AreaIds, c \in CoordinateValues : NewMapManager(a, c)
    \/ \E o \in OverlayFileNames : UpdateOverlay(o)
    \/ UpdateRadarMap
    \/ ReadRadarMap
    \/ ReadMap
    \/ \E name \in OverlayFileNames : FileArrives(name)
    \/ \E file \in DOMAIN cache_directory : CacheFileRemoved(file)
    \/ CacheDirectoryChmod
    \/ MainMapToggled

Spec == Init /\ [][Next]_vars

\* calls of add_tile with tiles for all the slots
NextTraffic == \E name \in TileFileNames : AddTile(name)

SpecTraffic == Init /\ [][NextTraffic]_vars

\* the polls of the traffic pipeline on the dump directory
NextPoll ==
    \/ \E name \in PollTileNames : FileArrives(name)
    \/ FindAndAddTiles

SpecPoll == Init /\ [][NextPoll]_vars

\* the polls of the three pipelines on one dump directory, with the managers
\* constructed
InitIngest ==
    /\ map_manager = MapManagerInit(Str(<<"A", "B", "C", "1", "2", "3">>),
                                    <<<<400, -750>>, <<390, -740>>>>)
    /\ radar = DopplerRadarManagerInit(None)
    /\ cache_directory = [f \in {} |-> None]
    /\ cache_writable = TRUE
    /\ main_map_present = TRUE
    /\ dump_directory = {}
    /\ config_text = ParensConfig
    /\ _tiles = TilesInit
    /\ _traffic_map = TrafficMapInit
    /\ lastOp = Op("start", "")
    /\ prevOp = "start"
    /\ result = None
    /\ fx = NoFx
    /\ area_map = AreaMapInit
    /\ timers = {}
    /\ traffic_panel = None
    /\ weather_panel = None

NextIngest ==
    \/ \E name \in IngestFileNames : FileArrives(name)
    \/ FindAndAddTiles
    \/ UpdateRadarMap
    \/ GetConfig

SpecIngest == InitIngest /\ [][NextIngest]_vars

\* the radar poll and the traffic poll on one dump directory
NextPipelines ==
    \/ \E name \in OverlayFileNames \cup PollTileNames \cup SharedFileNames :
          FileArrives(name)
    \/ FindAndAddTiles
    \/ UpdateRadarMap

SpecPipelines == InitIngest /\ [][NextPipelines]_vars

\* the traffic frame: TrafficFrame.__init__ has scheduled the handler, and the
\* event loop runs a scheduled handler when its time has come
InitTick ==
    /\ map_manager = None
    /\ radar = None
    /\ cache_directory = [f \in {} |-> None]
    /\ cache_writable = TRUE
    /\ main_map_present = TRUE
    /\ dump_directory = {}
    /\ config_text = ParensConfig
    /\ _tiles = TilesInit
    /\ _traffic_map = TrafficMapInit
    /\ lastOp = Op("start", "")
    /\ prevOp = "start"
    /\ result = None
    /\ fx = NoFx
    /\ area_map = AreaMapInit
    /\ timers = {"traffic"}
    /\ traffic_panel = None
    /\ weather_panel = None

NextTick ==
    \/ \E name \in PollTileNames : FileArrives(name)
    \/ TrafficTick

SpecTick == InitTick /\ [][NextTick]_vars /\ WF_vars(TrafficTick)

\* the radar frame: RadarFrame.__init__ has scheduled the handler and built a
\* DopplerRadarManager without an overlay on a MapManager without configuration
InitRadarTick ==
    /\ map_manager = None
    /\ radar = DopplerRadarManagerInit(None)
    /\ cache_directory = [f \in {} |-> None]
    /\ cache_writable = TRUE
    /\ main_map_present = TRUE
    /\ dump_directory = {}
    /\ config_text \in StationConfigs
    /\ _tiles = TilesInit
    /\ _traffic_map = TrafficMapInit
    /\ lastOp = Op("start", "")
    /\ prevOp = "start"
    /\ result = None
    /\ fx = NoFx
    /\ area_map = AreaMapInit
    /\ timers = {"radar"}
    /\ traffic_panel = None
    /\ weather_panel = None

NextRadarTick ==
    \/ \E name \in OverlayFileNames \cup ConfigFileNames : FileArrives(name)
    \/ RadarTick

SpecRadarTick == InitRadarTick /\ [][NextRadarTick]_vars /\ WF_vars(RadarTick)

\* the parsing of a configuration text
InitConfig ==
    /\ map_manager = None
    /\ radar = None
    /\ cache_directory = [f \in {} |-> None]
    /\ cache_writable = TRUE
    /\ main_map_present = TRUE
    /\ dump_directory = {}
    /\ config_text \in ConfigNames
    /\ _tiles = TilesInit
    /\ _traffic_map = TrafficMapInit
    /\ lastOp = Op("start", "")
    /\ prevOp = "start"
    /\ result = None
    /\ fx = NoFx
    /\ area_map = AreaMapInit
    /\ timers = {}
    /\ traffic_panel = None
    /\ weather_panel = None

NextConfig ==
    \/ LoadConfig
    \/ InitFromConfig

SpecConfig == InitConfig /\ [][NextConfig]_vars


\* the decoder started from the station form
NextNrsc5 == \E state_vars \in StationSettings : StartNrsc5Rtl(state_vars)

SpecNrsc5 == Init /\ [][NextNrsc5]_vars

(* ------------------------------------------------------------------ *)
(* Properties                                                           *)
(* ------------------------------------------------------------------ *)
IsImage(v) == v.tag = "image"

\* the cache file of the manager in use
OwnCacheFile == map_cache_file(map_manager)

\* C1: every read of radar_map returns the memoized image, and that image is
\* composed from the overlay of the latest update_overlay call: a read that
\* follows an update never returns an image of an earlier overlay.
C1_UpdateInvalidatesRadarMap ==
    (lastOp.name = "radar_map" /\ IsImage(result))
        => (result = radar._radar_map /\ result.overlay = radar.overlay.src)

\* C2: update_overlay(A) directly followed by update_overlay(B) and then a read
\* of radar_map yields the composite of the base map with B and nothing of A.
C2_ReplaceNotMerge ==
    [][(/\ prevOp = "update_overlay"
        /\ lastOp.name = "update_overlay"
        /\ lastOp'.name = "radar_map"
        /\ IsImage(result'))
          => (result'.overlay = lastOp.arg /\ result'.base = map_manager'.map.src)]_vars

\* C3: an add_tile call that fills the ninth entry of the tracking table resets
\* the table before it returns, so the table is never left with all nine
\* entries filled.
C3_TableResetWhenComplete == \E i \in Slots : _tiles[i] = None

\* C4: a poll that meets a tile file without coordinates in its name skips and
\* deletes that file and places and deletes every other file it listed: after
\* find_and_add_tiles none of the listed files is left, every listed file with
\* coordinates has its slot pasted from the listing, and the call returned True.
C4_MalformedTileSkipped ==
    (lastOp.name = "find_and_add_tiles" /\ Len(lastOp.arg) > 0)
        => /\ result = True
           /\ \A i \in 1..Len(lastOp.arg) :
                 /\ lastOp.arg[i] \notin dump_directory
                 /\ ~IsErr(xy_coordinates(lastOp.arg[i]))
                      => \E j \in 1..Len(lastOp.arg) :
                            /\ xy_coordinates(lastOp.arg[j]) = xy_coordinates(lastOp.arg[i])
                            /\ _traffic_map[<<xy_coordinates(lastOp.arg[i]).x * 200,
                                              xy_coordinates(lastOp.arg[i]).y * 200>>]
                                 = load_file(lastOp.arg[j]).image

\* C5: init_from_config parses the example text DWR_Area_ID="ABC123",
\* Coordinates=("40.0,-75.0");("39.0,-74.0") without error into the area id
\* ABC123 and the edges 40.0, -75.0, 39.0, -74.0.
C5_ExampleConfigParses ==
    (lastOp.name = "init_from_config" /\ config_text = ParensConfig)
        => /\ result.tag = "MapManager"
           /\ result.area_id = Str(<<"A", "B", "C", "1", "2", "3">>)
           /\ result.lat_top = 400 /\ result.lon_left = -750
           /\ result.lat_bottom = 390 /\ result.lon_right = -740

\* C6: every read of MapManager.map made while the cache directory is not
\* writable and the manager's cache file does not exist fails with the error of
\* the cache write (the error of the main map when that is missing as well), and
\* every read that has to generate while the main map is missing fails with the
\* error of the main map; no such read returns an image.
C6_UnwritableCacheFails ==
    /\ (lastOp.name = "map" /\ ~cache_writable /\ ~Exists(cache_directory, OwnCacheFile))
          => /\ IsErr(result)
             /\ main_map_present => result = Err("PermissionError")
    /\ (lastOp.name = "map" /\ ~main_map_present /\ map_manager.map = None
           /\ ~Exists(cache_directory, OwnCacheFile))
          => result = Err("FileNotFoundError")

\* C7: a read of MapManager.map that finds the image held in memory or finds
\* the cache file reads no main map and neither writes nor unlinks the cache
\* file.
C7_DiskOnlyOnGeneration ==
    [][(/\ lastOp'.name = "map"
        /\ (map_manager.map # None \/ Exists(cache_directory, OwnCacheFile)))
          => fx' = NoFx]_vars

PollNames == {"get_config", "update_radar_map", "find_and_add_tiles"}

\* C11: every file read by a poll (get_config, update_radar_map,
\* find_and_add_tiles) is deleted by that poll, also when its processing
\* failed, so that no later poll finds it again: after each poll the first
\* file of its listing, which it always reads, is no longer in the dump
\* directory.
C11_ConsumedAtMostOnce ==
    (lastOp.name \in PollNames /\ Len(lastOp.arg) > 0)
        => lastOp.arg[1] \notin dump_directory

\* C12: recognition failures are not fatal for the polling: the traffic handler
\* stays scheduled for ever, and under fair ticks every tile file with
\* coordinates that is in the dump directory is eventually consumed.
C12_PollingSurvivesMalformedTile ==
    /\ []("traffic" \in timers)
    /\ \A n \in PollTileNames \ {"TMT_nomatch.png"} :
          (n \in dump_directory) ~> (n \notin dump_directory)

\* C13: update_radar_map that finds overlay files loads the first file of the
\* listing into the overlay, removes every overlay file of the dump directory
\* and returns True; one that finds none returns False and leaves the overlay,
\* the memoized radar map and the directory as they were.
C13_UpdateRadarMapConsumesAll ==
    [][(lastOp'.name = "update_radar_map")
          => IF Glob(dump_directory, OverlayFiles) = {}
             THEN /\ result' = False
                  /\ radar' = radar
                  /\ dump_directory' = dump_directory
             ELSE /\ result' = True
                  /\ {lastOp'.arg[i] : i \in 1..Len(lastOp'.arg)}
                       = Glob(dump_directory, OverlayFiles)
                  /\ radar'.overlay = ConvertRGBA(FileImage(lastOp'.arg[1]))
                  /\ dump_directory' = dump_directory \ OverlayFiles]_vars

\* C13 happens: two overlay files were listed, the first of the listing is the
\* overlay now and neither file is left.
C13_Witness ==
    /\ lastOp.name = "update_radar_map"
    /\ Len(lastOp.arg) = 2
    /\ result = True
    /\ radar.overlay.src = lastOp.arg[1]
    /\ dump_directory \cap OverlayFiles = {}

\* the digits that name the rows and columns of the slots
RowColDigits == {"1", "2", "3"}

\* whether a file name contains _<row>_<col>_
HasCoordinates(name) ==
    \E r, c \in RowColDigits : Contains(NameChars(name), <<"_", r, "_", c, "_">>)

\* the tracking entry of a file name with _<row>_<col>_: (col - 1) + 3 * (row - 1)
SlotOf(name) ==
    CHOOSE k \in Slots :
        \E r, c \in RowColDigits :
            /\ Contains(NameChars(name), <<"_", r, "_", c, "_">>)
            /\ k = (DigitVal(c) - 1) + 3 * (DigitVal(r) - 1)

\* the offset of the region of the canvas of a tracking entry
OffsetOf(k) == <<(k % 3) * 200, (k \div 3) * 200>>

Max(S) == CHOOSE x \in S : \A y \in S : x >= y

\* C14: find_and_add_tiles lists the tile files of the dump directory, calls
\* add_tile once for each of them in the order of the listing and removes each
\* of them; it returns True exactly when the listing was not empty, and none of
\* the listed files is left.  The table and the canvas are those of the
\* add_tile calls: each slot holds the last listed file of that slot.
C14_FindAndAddTiles ==
    [][(lastOp'.name = "find_and_add_tiles")
          => /\ {lastOp'.arg[i] : i \in 1..Len(lastOp'.arg)}
                  = Glob(dump_directory, TileFiles)
             /\ dump_directory' = dump_directory \ TileFiles
             /\ result' = IF Len(lastOp'.arg) = 0 THEN False ELSE True
             /\ \A k \in Slots :
                   IF \E i \in 1..Len(lastOp'.arg) : SlotOf(lastOp'.arg[i]) = k
                   THEN LET last == Max({i \in 1..Len(lastOp'.arg) :
                                            SlotOf(lastOp'.arg[i]) = k})
                        IN  /\ _tiles'[k] = load_file(lastOp'.arg[last])
                            /\ _traffic_map'[OffsetOf(k)] = load_file(lastOp'.arg[last]).image
                   ELSE /\ _tiles'[k] = _tiles[k]
                        /\ _traffic_map'[OffsetOf(k)] = _traffic_map[OffsetOf(k)]]_vars

\* C15: add_tile succeeds for every file name that contains _<row>_<col>_ with
\* row and col in 1..3; for every other name it raises and leaves the canvas
\* and the tracking table as they were.
C15_AddTileFailsOnlyOnMalformedName ==
    [][(lastOp'.name = "add_tile")
          => IF HasCoordinates(lastOp'.arg)
             THEN result' = None
             ELSE /\ result' = Err("Exception")
                  /\ _tiles' = _tiles
                  /\ _traffic_map' = _traffic_map]_vars

\* C15 happens: add_tile raised for a name without coordinates on a manager
\* that holds tiles.
C15_Witness ==
    /\ lastOp.name = "add_tile"
    /\ ~HasCoordinates(lastOp.arg)
    /\ IsErr(result)
    /\ \E k \in Slots : _tiles[k] # None

\* C16: add_tile of a file named with _<row>_<col>_ pastes the tile at the
\* offset ((col - 1) * 200, (row - 1) * 200), stores it as tracking entry
\* (col - 1) + 3 * (row - 1) and changes no other region and no other entry.
C16_SlotOfRowAndColumn ==
    [][(lastOp'.name = "add_tile")
          => \A r, c \in RowColDigits :
                Contains(NameChars(lastOp'.arg), <<"_", r, "_", c, "_">>)
                  => /\ _traffic_map'
                          = [_traffic_map EXCEPT
                               ![<<(DigitVal(c) - 1) * 200, (DigitVal(r) - 1) * 200>>]
                                  = load_file(lastOp'.arg).image]
                     /\ _tiles'
                          = [_tiles EXCEPT ![(DigitVal(c) - 1) + 3 * (DigitVal(r) - 1)]
                                              = load_file(lastOp'.arg)]]_vars

\* C16 happens: TMT_foo_2_3_bar.png was added and is at offset (400, 200), entry
\* 5, while the regions of tiles never added are transparent.
C16_Witness ==
    /\ lastOp = Op("add_tile", "TMT_foo_2_3_bar.png")
    /\ _traffic_map[<<400, 200>>] = load_file("TMT_foo_2_3_bar.png").image
    /\ _tiles[5] = load_file("TMT_foo_2_3_bar.png")
    /\ \E k \in Slots : _tiles[k] = None /\ _traffic_map[OffsetOf(k)] = Transparent

\* the tile files that have coordinates
ValidTileNames == {n \in TileFileNames : HasCoordinates(n)}

\* the canvas after add_tile of a file on a canvas
CanvasAfter(traffic_map, name) == add_tile(_tiles, traffic_map, load_file(name)).map

\* C17: on every canvas the program reaches, adding two tiles of different
\* slots gives the same canvas in either order (so every order of a set of
\* tiles with pairwise distinct slots gives the same canvas), and adding a tile
\* twice in a row gives the canvas of adding it once.
C17_OrderIndependentIdempotent ==
    \A a \in ValidTileNames :
        LET with_a == CanvasAfter(_traffic_map, a)
        IN  /\ CanvasAfter(with_a, a) = with_a
            /\ \A b \in ValidTileNames :
                  xy_coordinates(a) # xy_coordinates(b)
                    => CanvasAfter(with_a, b) = CanvasAfter(CanvasAfter(_traffic_map, b), a)

\* C17 happens: tiles of two slots were added one after the other, and the
\* canvas is the one the other order gives on an empty canvas.
C17_Witness ==
    /\ lastOp.name = "add_tile"
    /\ prevOp = "add_tile"
    /\ \E a, b \in ValidTileNames :
          /\ xy_coordinates(a) # xy_coordinates(b)
          /\ lastOp.arg = b
          /\ _traffic_map = CanvasAfter(CanvasAfter(TrafficMapInit, b), a)

\* C18: every region of the canvas shows the tile last added for its slot, and
\* is transparent when none was added; right after add_tile the region of the
\* added tile shows that tile, whatever was there before.
C18_LatestTilePerSlot ==
    /\ \A k \in Slots :
          _traffic_map[OffsetOf(k)]
            = IF _tiles[k] = None THEN Transparent ELSE _tiles[k].image
    /\ (lastOp.name = "add_tile" /\ HasCoordinates(lastOp.arg))
          => /\ _tiles[SlotOf(lastOp.arg)] = load_file(lastOp.arg)
             /\ _traffic_map[OffsetOf(SlotOf(lastOp.arg))] = load_file(lastOp.arg).image

\* C18 happens: the second tile file of the first slot was added after other
\* tiles and is the one the region shows.
C18_Witness ==
    /\ lastOp = Op("add_tile", "TMT_b_1_1_x.png")
    /\ prevOp = "add_tile"
    /\ _traffic_map[<<0, 0>>] = load_file("TMT_b_1_1_x.png").image
    /\ \E k \in Slots \ {0} : _tiles[k] # None

\* C19: a read of MapManager.map that returns an image returns the image the
\* manager holds if it holds one, else the image of the cache file converted to
\* RGBA if the file exists, else the crop generated from the main map; the
\* manager then holds the image that was returned, and a read that directly
\* follows returns the same image.
C19_MapResolutionOrder ==
    [][/\ (lastOp'.name = "map" /\ IsImage(result'))
            => /\ map_manager'.map = result'
               /\ result' = IF map_manager.map # None THEN map_manager.map
                            ELSE IF Exists(cache_directory, OwnCacheFile)
                            THEN ConvertRGBA(cache_directory[OwnCacheFile])
                            ELSE CropOf(map_manager)
               /\ fx'.main_map_read
                    = (map_manager.map = None /\ ~Exists(cache_directory, OwnCacheFile))
       /\ (lastOp.name = "map" /\ IsImage(result) /\ lastOp'.name = "map")
            => result' = result]_vars

\* C19 happens: a manager that held no image returned the image of the cache
\* file without a read of the main map, and holds it now.
C19_Witness ==
    /\ lastOp.name = "map"
    /\ IsImage(result)
    /\ fx.cache_unlinked /\ ~fx.main_map_read
    /\ map_manager.map = result

\* C20 as stated: the second of two successive map requests, on the same
\* manager or on a manager constructed in between, never reads the main map.
C20_SecondRequestNeverReadsMainMap ==
    [][(/\ lastOp.name = "map" \/ (prevOp = "map" /\ lastOp.name = "MapManager")
        /\ lastOp'.name = "map")
          => ~fx'.main_map_read]_vars

\* C20 as amended: a map request reads the main map only when its manager
\* holds no image and no cache file of the area id exists; a request that
\* saved the cache file leaves the file and a held image, and the file stays
\* until it is removed from outside.  So the second of two requests reads the
\* main map again only if the first one left no cache file.
C20_MainMapReadOnlyWithoutImageAndCacheFile ==
    [][/\ (lastOp'.name = "map"
             /\ (map_manager.map # None \/ Exists(cache_directory, OwnCacheFile)))
            => ~fx'.main_map_read
       /\ (lastOp'.name = "map" /\ fx'.cache_saved)
            => (Exists(cache_directory', OwnCacheFile) /\ map_manager'.map # None)
       /\ (lastOp'.name # "cache_file_removed")
            => \A f \in DOMAIN cache_directory : Exists(cache_directory', f)]_vars

\* C20 happens: a manager constructed after an earlier request returned the map
\* without a read of the main map.
C20_Witness ==
    /\ lastOp.name = "map"
    /\ prevOp = "MapManager"
    /\ IsImage(result)
    /\ ~fx.main_map_read

ValuesOfKey(text, key) ==
    LET lines == SplitLines(text)
        with == {i \in 1..Len(lines) :
                    /\ Len(lines[i]) > Len(key)
                    /\ SubSeq(lines[i], 1, Len(key) + 1) = key \o <<"=">>}
    IN  {SubSeq(lines[i], Len(key) + 2, Len(lines[i])) : i \in with}

\* C22: init_from_config raises and produces no MapManager when the text has no
\* DWR_Area_ID line, when it has no Coordinates line, or when a Coordinates
\* value does not split at ';' into exactly two parts.
C22_MalformedConfigFails ==
    (/\ lastOp.name = "init_from_config"
     /\ \/ ValuesOfKey(ConfigText(config_text), AreaIdKey) = {}
        \/ ValuesOfKey(ConfigText(config_text), CoordinatesKey) = {}
        \/ \A v \in ValuesOfKey(ConfigText(config_text), CoordinatesKey) :
              Len(Split(v, ";")) # 2)
        => (IsErr(result) /\ map_manager = None)

\* C22 happens: the text with the area id and three groups of coordinates was
\* refused as malformed.
C22_Witness ==
    /\ lastOp.name = "init_from_config"
    /\ config_text = [first |-> "absent", area |-> "area_quoted", coords |-> "coords_three"]
    /\ result = Err("Exception")
    /\ map_manager = None

\* the separator of the segments of a path
PathSeparator == "/"

\* C23: the cache file of every MapManager made from a configuration text is a
\* direct child of the cache directory: its path relative to the cache
\* directory has no path separator, whatever the area id of the text is.
C23_CacheFileInsideCacheDirectory ==
    (lastOp.name = "init_from_config" /\ result.tag = "MapManager")
        => Positions(map_cache_file(result), PathSeparator) = {}

\* C24: a DopplerRadarManager built without an overlay has has_overlay false;
\* has_overlay is true after update_overlay and after an update_radar_map that
\* returned True; and once has_overlay is true, it is still true after every
\* update_overlay, update_radar_map and read of radar_map.
C24_HasOverlayMonotone ==
    [][ /\ lastOp'.name = "MapManager" => ~has_overlay(radar')
        /\ lastOp'.name = "update_overlay" => has_overlay(radar')
        /\ (lastOp'.name = "update_radar_map" /\ result' = True) => has_overlay(radar')
        /\ (radar # None /\ lastOp'.name \in {"update_overlay", "update_radar_map", "radar_map"})
              => (has_overlay(radar) => has_overlay(radar')) ]_vars

\* an update_radar_map that found no file, on a manager whose overlay was set
\* and whose radar map was read before
C24_Witness ==
    /\ lastOp.name = "update_radar_map"
    /\ result = False
    /\ has_overlay(radar)
    /\ radar._radar_map # None

\* C25: update_radar_map leaves the traffic canvas, the tracking table and
\* the tile files of the dump directory unchanged, and find_and_add_tiles
\* leaves the overlay, the memoized radar map, the map manager, the map cache
\* and the overlay files of the dump directory unchanged, whatever files the
\* dump directory holds.
C25_PipelinesIndependent ==
    [][ /\ lastOp'.name = "update_radar_map"
              => /\ _traffic_map' = _traffic_map
                 /\ _tiles' = _tiles
                 /\ Glob(dump_directory', TileFiles) = Glob(dump_directory, TileFiles)
        /\ lastOp'.name = "find_and_add_tiles"
              => /\ radar' = radar
                 /\ map_manager' = map_manager
                 /\ cache_directory' = cache_directory
                 /\ Glob(dump_directory', OverlayFiles) = Glob(dump_directory, OverlayFiles)
      ]_vars

\* C26: a tick of the radar display handler reads radar_map only when
\* has_overlay is true: whenever a tick has read radar_map, the manager had an
\* overlay, and the read did not fail for the lack of one.
C26_ReadOnlyWithOverlay ==
    (lastOp.name = "RadarFrame.update_event_handler" /\ result.read)
        => /\ has_overlay(radar)
           /\ result.image # Err("AttributeError")

\* a tick that found an overlay, read radar_map and put it on the panel
C26_Witness ==
    /\ lastOp.name = "RadarFrame.update_event_handler"
    /\ result.updated = True
    /\ result.read
    /\ has_overlay(radar)
    /\ weather_panel = radar._radar_map
    /\ weather_panel = result.image

\* C27: the command line of start_nrsc5__rtl has no '-g' argument when the
\* gain setting is 'auto', and has '-g' followed by the configured value when
\* the gain setting is a gain level.
C27_GainArgument ==
    lastOp.name = "start_nrsc5__rtl"
        => IF lastOp.arg.gain = Auto
           THEN \A i \in 1..Len(result.l) : result.l[i] # GainFlag
           ELSE \E i \in 1..(Len(result.l) - 1) :
                   /\ result.l[i] = GainFlag
                   /\ result.l[i + 1] = StrFloat(ParseFloat(lastOp.arg.gain).v)

\* C28: a read of radar_map by a manager without an overlay fails and changes
\* nothing: the memoized radar map stays unset, the MapManager keeps its
\* memoized map as it was, the main map is not read, and no cache file is
\* created, removed or written.
C28_FailingReadChangesNothing ==
    [][ (radar # None /\ ~has_overlay(radar) /\ lastOp'.name = "radar_map")
            => /\ IsErr(result')
               /\ radar'._radar_map = None
               /\ map_manager' = map_manager
               /\ cache_directory' = cache_directory
               /\ fx' = NoFx ]_vars

\* C29: a read of MapManager.map that memoizes an image leaves the cache file
\* of the manager's area id on disk, and a read whose cache write failed
\* leaves no image memoized and leaves a cache file that existed before in
\* place; so a manager holds an image only while its cache file exists or was
\* removed from outside.
C29_MemoizedImpliesCached ==
    [][ lastOp'.name = "map"
            => /\ (map_manager.map = None /\ map_manager'.map # None)
                     => Exists(cache_directory', map_cache_file(map_manager'))
               /\ (IsErr(result') /\ map_manager.map = None)
                     => /\ map_manager'.map = None
                        /\ Exists(cache_directory, OwnCacheFile)
                              => /\ Exists(cache_directory', OwnCacheFile)
                                 /\ cache_directory'[OwnCacheFile]
                                        = cache_directory[OwnCacheFile] ]_vars

====
